---- MODULE Spec2Model ----
(***************************************************************************)
(* The geocoding pipeline of nl-highschools-dashboard: the address         *)
(* builder, the geocode cache and its JSON file, the Nominatim client, the *)
(* fallback geocoder and the batch orchestrators geocode_all_schools,      *)
(* accurate_geocoding, geocode_batch and geocode_with_fallback.            *)
(*                                                                         *)
(* Representation.  A Python str is a sequence of one-character strings.   *)
(* A table cell is a record: [na |-> TRUE] is pandas' NaN, and             *)
(* [na |-> FALSE, v |-> x] holds x (a str, or a coordinate).  Coordinates  *)
(* are integers in units of 0.001 degree.  A cache value is Python's None, *)
(* a tuple (lat, lon) or, once read back from JSON, a list [lat, lon].     *)
(***************************************************************************)
EXTENDS Integers, Sequences, FiniteSets, TLC

VARIABLES
    full,            \* nl_highschools_full.csv: the input dataset (a sequence of rows)
    outCsv,          \* nl_highschools_accurate_coordinates.csv: [exists, rows]
    cacheFile,       \* accurate_geocoding_cache.json: [exists, data] (data: JSON object)
    pc,              \* "idle" (no process), "loop", "call" (request outstanding), "sleep"
    script,          \* the script of the running (or of the last) process
    df,              \* the process's table
    cache,           \* the process's cache dict
    failed_schools,  \* geocode_with_fallback: labels of the rows without coordinates at load
    idx,             \* position of the for loop
    pending,         \* the query of the outstanding request
    geocoded_count,
    failed_count,
    shown,           \* history: the failure lines this process has printed
    lastExit,        \* how the last process ended
    netCalls,        \* history: network calls issued by this process, per query
    needDelay,       \* history: a network call was issued and no sleep completed since
    adjacentCalls,   \* history: a network call was issued while needDelay
    visited,         \* history: labels of the rows the loop body handled, in order
    todo,            \* history: labels of the rows lacking coordinates after load
    lastCall,        \* history: the last geocode call: query, response, value returned
    lastStore,       \* history: the last coordinate written to a row
    everCached,      \* history: queries that had a cache entry, in memory or on file
    everSaved,       \* history: queries that had an entry in the cache file
    dumped,          \* history: the dict the last json.dump wrote, [valid, d]
    lost,            \* history: what the last ended process had in memory and not on file
    rec,             \* Address Builder on its own: the record it is given
    addr             \* Address Builder on its own: the variant applied and the string built

\* the files
files == <<outCsv, cacheFile, everSaved, dumped>>
\* the memory of the process
memory == <<df, cache, failed_schools, idx, pending, geocoded_count, failed_count, shown>>
\* the history of the process's loop
history == <<visited, todo, lastCall, lastStore>>
\* the history of its network calls
calls == <<netCalls, needDelay>>

\* what the pipeline's steps are given and never change
given == <<full, rec, addr>>

vars == <<given, files, pc, script, memory, lastExit, calls, adjacentCalls, history,
          everCached, lost>>

----------------------------------------------------------------------------
(* Bounds of the model *)

\* rows of the input dataset
NRec == 2
\* rows of a long input dataset: more than the longest checkpoint interval
LongLen == 51
\* rows of an input dataset of different addresses: more than the shortest interval
MedLen == 6

----------------------------------------------------------------------------
(* Values *)

NaN == [na |-> TRUE]
Val(x) == [na |-> FALSE, v |-> x]
isna(c) == c.na
notna(c) == ~c.na

None == [t |-> "None"]
Tuple(lat, lon) == [t |-> "tuple", lat |-> lat, lon |-> lon]
List(lat, lon) == [t |-> "list", lat |-> lat, lon |-> lon]
\* Python truth value of a cache value: None is false, a 2-tuple or 2-list is true
Truthy(v) == v.t # "None"

JNull == [j |-> "null"]
JArray(lat, lon) == [j |-> "array", lat |-> lat, lon |-> lon]

EmptyDict == [k \in {} |-> None]
Put(d, k, v) == [x \in DOMAIN d \cup {k} |-> IF x = k THEN v ELSE d[x]]

\* faulty variant: only the successful entries are written
JsonDumpTruthy(d) ==
    [k \in {x \in DOMAIN d : Truthy(d[x])} |-> JArray(d[k].lat, d[k].lon)]

\* json.dump of the cache dict: None -> null, a tuple or a list -> an array
JsonDump(d) ==
    [k \in DOMAIN d |-> IF d[k].t = "None" THEN JNull ELSE JArray(d[k].lat, d[k].lon)]

\* json.load of the cache file: null -> None, an array -> a list
JsonLoad(o) ==
    [k \in DOMAIN o |-> IF o[k].j = "null" THEN None ELSE List(o[k].lat, o[k].lon)]

----------------------------------------------------------------------------
(* str operations *)

Whitespace == {" ", "\t"}

RECURSIVE LStrip(_)
LStrip(s) == IF s # <<>> /\ Head(s) \in Whitespace THEN LStrip(Tail(s)) ELSE s

RECURSIVE RStrip(_)
RStrip(s) ==
    IF s # <<>> /\ s[Len(s)] \in Whitespace THEN RStrip(SubSeq(s, 1, Len(s) - 1)) ELSE s

\* str.strip()
Strip(s) == RStrip(LStrip(s))

\* sep.join(parts)
RECURSIVE Join(_, _)
Join(sep, parts) ==
    IF parts = <<>> THEN <<>>
    ELSE IF Len(parts) = 1 THEN parts[1]
    ELSE parts[1] \o sep \o Join(sep, Tail(parts))

CommaSpace == <<",", " ">>
Netherlands == <<"N", "e", "t", "h", "e", "r", "l", "a", "n", "d", "s">>
StrNan == <<"n", "a", "n">>

----------------------------------------------------------------------------
(* Address Builder *)

\* str(row[field]).strip()
Field(row, f) == Strip(row[f].v)

\* faulty variant: the city is put before the postcode
create_full_address_city_first(row) ==
    LET house_no == Field(row, "house_no")
        street_part ==
            IF notna(row.house_no) /\ house_no # StrNan /\ house_no # <<>>
            THEN Field(row, "street") \o <<" ">> \o house_no
            ELSE Field(row, "street")
        parts ==
            (IF notna(row.street) THEN <<street_part>> ELSE <<>>)
            \o (IF notna(row.city) THEN <<Field(row, "city")>> ELSE <<>>)
            \o (IF notna(row.postcode) THEN <<Field(row, "postcode")>> ELSE <<>>)
            \o <<Netherlands>>
    IN  Join(CommaSpace, parts)

\* create_full_address of geocode_all_schools.py (geocode_with_fallback.py has the same text)
create_full_address(row) ==
    LET house_no == Field(row, "house_no")
        house_add == Field(row, "house_add")
        with_add ==
            IF notna(row.house_add) /\ house_add # StrNan /\ house_add # <<>>
            THEN house_add ELSE <<>>
        street_part ==
            IF notna(row.house_no) /\ house_no # StrNan /\ house_no # <<>>
            THEN Field(row, "street") \o <<" ">> \o house_no \o with_add
            ELSE Field(row, "street")
        parts ==
            (IF notna(row.street) THEN <<street_part>> ELSE <<>>)
            \o (IF notna(row.postcode) THEN <<Field(row, "postcode")>> ELSE <<>>)
            \o (IF notna(row.city) THEN <<Field(row, "city")>> ELSE <<>>)
            \o <<Netherlands>>
    IN  Join(CommaSpace, parts)

\* create_full_address of accurate_geocoding.py: no filter on 'nan' or ''
create_full_address_accurate(row) ==
    LET with_add ==
            IF notna(row.house_add) THEN Field(row, "house_add") ELSE <<>>
        street_part ==
            IF notna(row.house_no)
            THEN Field(row, "street") \o <<" ">> \o Field(row, "house_no") \o with_add
            ELSE Field(row, "street")
        parts ==
            (IF notna(row.street) THEN <<street_part>> ELSE <<>>)
            \o (IF notna(row.postcode) THEN <<Field(row, "postcode")>> ELSE <<>>)
            \o (IF notna(row.city) THEN <<Field(row, "city")>> ELSE <<>>)
            \o <<Netherlands>>
    IN  Join(CommaSpace, parts)

\* create_full_address of geocode_batch.py: 'nan' is filtered, '' is not
create_full_address_batch(row) ==
    LET house_no == Field(row, "house_no")
        house_add == Field(row, "house_add")
        with_add ==
            IF notna(row.house_add) /\ house_add # StrNan THEN house_add ELSE <<>>
        street_part ==
            IF notna(row.house_no) /\ house_no # StrNan
            THEN Field(row, "street") \o <<" ">> \o house_no \o with_add
            ELSE Field(row, "street")
        parts ==
            (IF notna(row.street) THEN <<street_part>> ELSE <<>>)
            \o (IF notna(row.postcode) THEN <<Field(row, "postcode")>> ELSE <<>>)
            \o (IF notna(row.city) THEN <<Field(row, "city")>> ELSE <<>>)
            \o <<Netherlands>>
    IN  Join(CommaSpace, parts)

\* create_full_address of test_accurate_geocoding.py: the text of accurate_geocoding.py
create_full_address_test(row) ==
    LET with_add ==
            IF notna(row.house_add) THEN Field(row, "house_add") ELSE <<>>
        street_part ==
            IF notna(row.house_no)
            THEN Field(row, "street") \o <<" ">> \o Field(row, "house_no") \o with_add
            ELSE Field(row, "street")
        parts ==
            (IF notna(row.street) THEN <<street_part>> ELSE <<>>)
            \o (IF notna(row.postcode) THEN <<Field(row, "postcode")>> ELSE <<>>)
            \o (IF notna(row.city) THEN <<Field(row, "city")>> ELSE <<>>)
            \o <<Netherlands>>
    IN  Join(CommaSpace, parts)

\* the scripts that define a create_full_address
Variants == {"all", "fallback", "accurate", "batch", "test"}

\* create_full_address as script v defines it
Builder(v, row) ==
    IF v \in {"all", "fallback"} THEN create_full_address(row)
    ELSE IF v = "batch" THEN create_full_address_batch(row)
    ELSE IF v = "accurate" THEN create_full_address_accurate(row)
    ELSE create_full_address_test(row)

----------------------------------------------------------------------------
(* Geocoding Client and Fallback Geocoder *)

\* np.random.uniform(-0.002, 0.002): the bound, in units of 0.001 degree
JitterMax == 2
\* the draws the model takes: both ends and the middle of the interval
JitterDraws == {-JitterMax, 0, JitterMax}

\* The place the API knows for a query, <<lat, lon>>: a function of the query, places of
\* queries of different lengths lying further apart than any jitter
ApiCoord(q) == <<52000 + 10 * Len(q), 5000 + 10 * Len(q)>>

\* What requests.get and the decoding of its answer can do:
\*   exception  requests.get raises (timeout, connection error)
\*   non200     a status code other than 200
\*   empty      200 and an empty list
\*   malformed  200 and a first result without numeric 'lat'/'lon' (KeyError, ValueError)
\*   ok         200 and a first result with numeric 'lat' and 'lon'
Failures == {"exception", "non200", "empty", "malformed"}
Responses(q) ==
    {[kind |-> k, lat |-> 0, lon |-> 0] : k \in Failures}
    \cup {[kind |-> "ok", lat |-> ApiCoord(q)[1], lon |-> ApiCoord(q)[2]]}

Return(v, c) == [raised |-> FALSE, exc |-> "", ret |-> v, cache |-> c]
Raise(e, c) == [raised |-> TRUE, exc |-> e, ret |-> None, cache |-> c]

\* faulty variant: `if cache.get(address)`, which takes a cached None for a miss
InCacheTruthy(address, c) == address \in DOMAIN c /\ Truthy(c[address])

\* `if address in cache`
InCache(address, c) == address \in DOMAIN c

\* faulty variant: the except clause returns None without caching it
ExceptNoCache(address, r) ==
    IF r.raised THEN Return(None, r.cache) ELSE r

\* faulty variant: `except requests.RequestException`, which lets a KeyError through
ExceptRequestsOnly(address, r) ==
    IF r.raised /\ r.exc = "RequestException"
    THEN Return(None, Put(r.cache, address, None)) ELSE r

\* the except clause: every Exception is caught, None is cached and returned
ExceptException(address, r) ==
    IF r.raised THEN Return(None, Put(r.cache, address, None)) ELSE r

\* the try block of geocode_with_nominatim, entered on a cache miss
NominatimTry(address, c, resp) ==
    IF resp.kind = "exception" THEN Raise("RequestException", c)
    ELSE IF resp.kind = "malformed" THEN Raise("KeyError", c)
    ELSE IF resp.kind = "ok"
         THEN Return(Tuple(resp.lat, resp.lon), Put(c, address, Tuple(resp.lat, resp.lon)))
    ELSE Return(None, Put(c, address, None))

\* geocode_with_nominatim(address, cache), resp being the API's answer if it is asked
geocode_with_nominatim(address, c, resp) ==
    IF InCache(address, c) THEN Return(c[address], c)
    ELSE ExceptException(address, NominatimTry(address, c, resp))

\* f"{postcode}, {city}, Netherlands"
fallback_address(postcode, city) ==
    postcode \o CommaSpace \o city \o CommaSpace \o Netherlands

\* faulty variant: the coordinate is cached before the offset is added
FallbackTryCachesRaw(address, c, resp, u1, u2) ==
    IF resp.kind = "exception" THEN Raise("RequestException", c)
    ELSE IF resp.kind = "malformed" THEN Raise("KeyError", c)
    ELSE IF resp.kind = "ok"
         THEN Return(Tuple(resp.lat + u1, resp.lon + u2),
                     Put(c, address, Tuple(resp.lat, resp.lon)))
    ELSE Return(None, Put(c, address, None))

\* the try block of geocode_fallback; u1, u2 are the two random draws
FallbackTry(address, c, resp, u1, u2) ==
    IF resp.kind = "exception" THEN Raise("RequestException", c)
    ELSE IF resp.kind = "malformed" THEN Raise("KeyError", c)
    ELSE IF resp.kind = "ok"
         THEN LET result == Tuple(resp.lat + u1, resp.lon + u2)
              IN  Return(result, Put(c, address, result))
    ELSE Return(None, Put(c, address, None))

\* faulty variant: the offset is added to a cached coordinate again on every hit
geocode_fallback_rejitter(postcode, city, c, resp, u1, u2) ==
    LET address == fallback_address(postcode, city)
    IN  IF InCache(address, c)
        THEN IF Truthy(c[address])
             THEN Return(Tuple(c[address].lat + JitterMax, c[address].lon + JitterMax), c)
             ELSE Return(None, c)
        ELSE ExceptException(address, FallbackTry(address, c, resp, u1, u2))

\* geocode_fallback(postcode, city, cache)
geocode_fallback(postcode, city, c, resp, u1, u2) ==
    LET address == fallback_address(postcode, city)
    IN  IF InCache(address, c) THEN Return(c[address], c)
        ELSE ExceptException(address, FallbackTry(address, c, resp, u1, u2))

----------------------------------------------------------------------------
(* Tables and files *)

StrCols == {"street", "house_no", "house_add", "postcode", "city", "school_name"}

\* texts pandas.read_csv reads as NaN (the ones the model's files can hold)
NaTexts == {<<>>, StrNan, <<"N", "A">>}

Row(street, house_no, house_add, postcode, city, school_name, latitude, longitude) ==
    [street |-> street, house_no |-> house_no, house_add |-> house_add,
     postcode |-> postcode, city |-> city, school_name |-> school_name,
     latitude |-> latitude, longitude |-> longitude]

\* pd.read_csv: a row of the file as a row of the table
ReadCsvRow(r) ==
    [f \in DOMAIN r |->
        IF f \in StrCols /\ notna(r[f]) /\ r[f].v \in NaTexts THEN NaN ELSE r[f]]

ReadCsv(rows) == [i \in DOMAIN rows |-> ReadCsvRow(rows[i])]

\* df.drop('full_address', axis=1).to_csv(..., index=False): NaN is written as an empty field
ToCsv(t) == t

NoFile == [exists |-> FALSE, rows |-> <<>>]
NoCacheFile == [exists |-> FALSE, data |-> EmptyDict]

\* what open(..., 'w') and a write that did not end leave: a cache file that is no JSON
\* text, an output file of no bytes
TornCacheFile == [exists |-> TRUE, data |-> EmptyDict, torn |-> TRUE]
TornFile == [exists |-> TRUE, rows |-> <<>>, torn |-> TRUE]

\* json.load raises JSONDecodeError, pd.read_csv raises EmptyDataError
Unreadable(f) == "torn" \in DOMAIN f

\* faulty variant: the loop looks every row up
NeedsGeocodingAlways(row) == TRUE

\* pd.isna(row['latitude']) or pd.isna(row['longitude'])
NeedsGeocoding(row) == isna(row.latitude) \/ isna(row.longitude)

RECURSIVE MissingFrom(_, _)
MissingFrom(t, i) ==
    IF i > Len(t) THEN <<>>
    ELSE (IF NeedsGeocoding(t[i]) THEN <<i>> ELSE <<>>) \o MissingFrom(t, i + 1)

\* labels of df[(df['latitude'].isna()) | (df['longitude'].isna())], in table order
Missing(t) == MissingFrom(t, 1)

\* df.at[i, 'latitude'] = coords[0]; df.at[i, 'longitude'] = coords[1]
SetCoords(t, i, coords) ==
    [t EXCEPT ![i].latitude = Val(coords.lat), ![i].longitude = Val(coords.lon)]

\* faulty variant: the null entries of the file are not taken over
LoadCacheSuccessesOnly(f) ==
    IF f.exists
    THEN [k \in {x \in DOMAIN f.data : f.data[x].j # "null"} |-> JsonLoad(f.data)[k]]
    ELSE EmptyDict

\* with open(cache_file, 'r') as f: cache = json.load(f), or {} without the file
LoadCache(f) == IF f.exists THEN JsonLoad(f.data) ELSE EmptyDict

\* with open(cache_file, 'w') as f: json.dump(cache, f)
SaveCache(c) == [exists |-> TRUE, data |-> JsonDump(c)]

SaveOutput(t) == [exists |-> TRUE, rows |-> ToCsv(t)]

EmptyRow == Row(NaN, NaN, NaN, NaN, NaN, NaN, NaN, NaN)

CoordCols == {"latitude", "longitude"}

\* 'latitude' in df.columns and 'longitude' in df.columns (a table's rows have the
\* table's columns)
HasCoordCols(t) == \A i \in DOMAIN t : CoordCols \subseteq DOMAIN t[i]

\* df['latitude'] = None, df['longitude'] = None for the columns the table lacks
AddCoordColumns(t) ==
    [i \in DOMAIN t |->
        [f \in DOMAIN t[i] \cup CoordCols |-> IF f \in DOMAIN t[i] THEN t[i][f] ELSE NaN]]

\* a table without the two coordinate columns
DropCoordColumns(t) ==
    [i \in DOMAIN t |-> [f \in DOMAIN t[i] \ CoordCols |-> t[i][f]]]

Max(a, b) == IF a >= b THEN a ELSE b

\* faulty variant: the progress file is not merged
MergeNothing(t, existing) == t

\* the merge of geocode_all_schools.main: for idx, row in df_existing.iterrows(): a row of
\* the progress file with both coordinates gives them to the table's row of that label
\* (df.at enlarges the table when the label is new, and creates a column the table
\* lacks; with no such row nothing is assigned and no column is created)
MergeProgress(t, existing) ==
    LET resolved == {i \in DOMAIN existing : ~NeedsGeocoding(existing[i])}
        last == IF resolved = {} THEN 0 ELSE CHOOSE i \in resolved : \A j \in resolved : j <= i
        widened == IF resolved = {} THEN t ELSE AddCoordColumns(t)
    IN  [i \in 1..Max(Len(t), last) |->
            LET base == IF i <= Len(t) THEN widened[i] ELSE EmptyRow
            IN  IF i \in resolved
                THEN [base EXCEPT !.latitude = existing[i].latitude,
                                  !.longitude = existing[i].longitude]
                ELSE base]

----------------------------------------------------------------------------
(* The loop bodies of the orchestrators *)

\* geocode_all_schools: `if geocoded_count % 25 == 0` (progress line)
ProgressEvery == 25
\* geocode_all_schools: `if geocoded_count % 50 == 0` (save progress)
SaveEvery == 50
\* geocode_all_schools: `if failed_count <= 10` (failure lines shown)
ShownFailures == 10
\* accurate_geocoding: `if geocoded_count % 5 == 0` (save cache)
AccurateSaveEvery == 5
\* geocode_batch: `if geocoded_count % 10 == 0` (save cache)
BatchSaveEvery == 10
\* geocode_batch: batch_size = 100, the loop runs over df.head(batch_size)
BatchSize == 100

Effect(t, gc, fc, raised, saveOut, saveCache) ==
    [df |-> t, gc |-> gc, fc |-> fc, raised |-> raised,
     saveOut |-> saveOut, saveCache |-> saveCache]

\* row['school_name'][:n] raises TypeError when the cell is NaN (a float)
SliceRaises(row) == isna(row.school_name)

\* faulty variant: a failed lookup is not counted
AllBodyNoFailCount(t, i, coords, gc, fc) ==
    IF Truthy(coords)
    THEN LET raised == (gc + 1) % ProgressEvery = 0 /\ SliceRaises(t[i])
             save == ~raised /\ (gc + 1) % SaveEvery = 0
         IN  Effect(SetCoords(t, i, coords), gc + 1, fc, raised, save, save)
    ELSE Effect(t, gc, fc, SliceRaises(t[i]), FALSE, FALSE)

\* faulty variant: no periodic save
AllBodyNoSave(t, i, coords, gc, fc) ==
    IF Truthy(coords)
    THEN Effect(SetCoords(t, i, coords), gc + 1, fc,
                (gc + 1) % ProgressEvery = 0 /\ SliceRaises(t[i]), FALSE, FALSE)
    ELSE Effect(t, gc, fc + 1, fc + 1 <= ShownFailures /\ SliceRaises(t[i]), FALSE, FALSE)

\* geocode_all_schools.main, lines 144-170: what the result of the lookup does to row i
AllBody(t, i, coords, gc, fc) ==
    IF Truthy(coords)
    THEN LET raised == (gc + 1) % ProgressEvery = 0 /\ SliceRaises(t[i])
             save == ~raised /\ (gc + 1) % SaveEvery = 0
         IN  Effect(SetCoords(t, i, coords), gc + 1, fc, raised, save, save)
    ELSE Effect(t, gc, fc + 1, fc + 1 <= ShownFailures /\ SliceRaises(t[i]), FALSE, FALSE)

\* faulty variant: no periodic save of the cache
AccurateBodyNoSave(t, i, coords, gc, fc) ==
    IF Truthy(coords)
    THEN Effect(SetCoords(t, i, coords), gc + 1, fc, FALSE, FALSE, FALSE)
    ELSE Effect(t, gc, fc, FALSE, FALSE, FALSE)

\* accurate_geocoding.main, lines 119-130
AccurateBody(t, i, coords, gc, fc) ==
    IF Truthy(coords)
    THEN Effect(SetCoords(t, i, coords), gc + 1, fc, FALSE,
                FALSE, (gc + 1) % AccurateSaveEvery = 0)
    ELSE Effect(t, gc, fc, FALSE, FALSE, FALSE)

\* process_failed_schools, lines 149-155: every branch prints row['school_name'][:50]
FallbackBody(t, i, coords, gc, fc) ==
    IF Truthy(coords)
    THEN Effect(SetCoords(t, i, coords), gc + 1, fc, SliceRaises(t[i]), FALSE, FALSE)
    ELSE Effect(t, gc, fc, SliceRaises(t[i]), FALSE, FALSE)

\* geocode_batch.main, lines 118-129: both branches print row['school_name'][:50]; the
\* cache is saved after either branch whenever the count of successes is a multiple of 10
BatchBody(t, i, coords, gc, fc) ==
    LET n == IF Truthy(coords) THEN gc + 1 ELSE gc
        raised == SliceRaises(t[i])
    IN  Effect(IF Truthy(coords) THEN SetCoords(t, i, coords) ELSE t, n, fc, raised,
               FALSE, ~raised /\ n % BatchSaveEvery = 0)

\* the lines the except clause of the geocode call prints: one for an exception
ClientLines(kind) == IF kind \in {"exception", "malformed"} THEN 1 ELSE 0

\* the failure lines the loop body of script s prints for the result of a lookup:
\* geocode_all_schools prints one while failed_count <= 10, the other scripts one for
\* every row without result
BodyLines(s, coords, fc) ==
    IF Truthy(coords) THEN 0
    ELSE IF s = "all" THEN (IF fc + 1 <= ShownFailures THEN 1 ELSE 0)
    ELSE 1

Body(s, t, i, coords, gc, fc) ==
    IF s = "all" THEN AllBody(t, i, coords, gc, fc)
    ELSE IF s = "accurate" THEN AccurateBody(t, i, coords, gc, fc)
    ELSE IF s = "batch" THEN BatchBody(t, i, coords, gc, fc)
    ELSE FallbackBody(t, i, coords, gc, fc)

\* the count of successes at whose multiples script s saves the cache
CacheSaveEvery(s) ==
    IF s = "all" THEN SaveEvery
    ELSE IF s = "accurate" THEN AccurateSaveEvery
    ELSE BatchSaveEvery

\* the address the primary scripts look up for a row (df['full_address'])
full_address(s, row) == Builder(s, row)

\* str(row[f]).strip() if pd.notna(row[f]) else ''
StripOrEmpty(row, f) == IF notna(row[f]) THEN Field(row, f) ELSE <<>>

\* faulty variant: `if postcode or city`
FallbackAttemptedEither(row) ==
    StripOrEmpty(row, "postcode") # <<>> \/ StripOrEmpty(row, "city") # <<>>

\* `if postcode and city`
FallbackAttempted(row) ==
    StripOrEmpty(row, "postcode") # <<>> /\ StripOrEmpty(row, "city") # <<>>

\* the query the loop body looks up for a row
Query(s, row) ==
    IF s = "fallback"
    THEN fallback_address(StripOrEmpty(row, "postcode"), StripOrEmpty(row, "city"))
    ELSE full_address(s, row)

----------------------------------------------------------------------------
(* The input datasets *)

Str2(a, b) == Val(<<a, b>>)
Str1(a) == Val(<<a>>)

\* "Ks 1, 9Z, Ut, Netherlands"
RowKerk == Row(Str2("K", "s"), Str1("1"), NaN, Str2("9", "Z"), Str2("U", "t"), Str1("A"), NaN, NaN)
\* no street: "9Z, Ut, Netherlands"
RowNoStreet == Row(NaN, NaN, NaN, Str2("9", "Z"), Str2("U", "t"), Str1("B"), NaN, NaN)
\* no postcode
RowNoPostcode == Row(Str2("K", "s"), NaN, NaN, NaN, Str2("U", "t"), Str1("C"), NaN, NaN)
\* a city of white space only
RowBlankCity ==
    Row(Str2("M", "s"), Str1("2"), Str1("a"), Str2("8", "Y"), Str2(" ", " "), Str1("D"), NaN, NaN)
\* no school name
RowNoName == Row(Str2("M", "s"), Str1("2"), NaN, Str2("8", "Y"), Str2("A", "m"), NaN, NaN, NaN)
\* coordinates already in the input dataset
RowResolved ==
    Row(Str2("R", "s"), Str1("3"), NaN, Str2("7", "X"), Str2("U", "t"), Str1("E"),
        Val(51000), Val(4000))

Catalog == {RowKerk, RowNoStreet, RowNoPostcode, RowBlankCity, RowNoName, RowResolved}

\* the rows of the input datasets that have no coordinate columns
NoColumnCatalog == {RowKerk}

\* the input datasets: with the coordinate columns, and without them
Datasets ==
    [1..NRec -> Catalog] \cup {DropCoordColumns(d) : d \in [1..NRec -> NoColumnCatalog]}

\* RowKerk without a school name
RowKerkNoName == [RowKerk EXCEPT !.school_name = NaN]

\* a street name of n letters
Street(n) == [j \in 1..n |-> "a"]
\* rows that differ in the street only: different addresses, one postcode and city
RowStreet(n) ==
    Row(Val(Street(n)), NaN, NaN, Str2("9", "Z"), Str2("U", "t"), Str1("A"), NaN, NaN)

\* the long datasets: one address throughout; the same with a nameless school in the
\* row of the first periodic save; different addresses, the last row without postcode
LongDatasets ==
    {[i \in 1..LongLen |-> RowKerk],
     [i \in 1..LongLen |-> IF i = SaveEvery THEN RowKerkNoName ELSE RowKerk],
     [i \in 1..MedLen |-> IF i = MedLen THEN RowNoPostcode ELSE RowStreet(i)]}

\* a dataset of one row more than geocode_batch handles: a row without postcode, rows
\* that have their coordinates in the input dataset, and a last row that lacks them
BatchDataset ==
    [i \in 1..(BatchSize + 1) |->
        IF i = 1 THEN RowNoPostcode
        ELSE IF i = BatchSize + 1 THEN RowKerk
        ELSE RowResolved]

----------------------------------------------------------------------------
(* State *)

EmptyCount == [k \in {} |-> 0]
NoQuery == <<>>
NoCall ==
    [q |-> NoQuery, kind |-> "none", ret |-> None, raised |-> FALSE,
     cached |-> FALSE, entry |-> None]
NoStore == [by |-> "none", i |-> 0, q |-> NoQuery, lat |-> 0, lon |-> 0]
NoDump == [valid |-> FALSE, d |-> EmptyDict]
NoResponse == [kind |-> "none", lat |-> 0, lon |-> 0]

Primary == {"all", "accurate", "batch"}

Range(f) == {f[i] : i \in DOMAIN f}

\* row i of table t has the coordinates that the output file f holds for it
OnFile(t, i, f) ==
    /\ f.exists
    /\ i <= Len(f.rows)
    /\ f.rows[i].latitude = t[i].latitude
    /\ f.rows[i].longitude = t[i].longitude

\* the rows that lacked coordinates after load (td), have them in table t now and do not
\* have them in the output file f
UnsavedRows(t, td, f) ==
    {i \in Range(td) : i <= Len(t) /\ ~NeedsGeocoding(t[i]) /\ ~OnFile(t, i, f)}

\* the queries with an entry in cache c and none in the cache file f
UnsavedEntries(c, f) == {q \in DOMAIN c : ~(f.exists /\ q \in DOMAIN f.data)}

\* the queries among them whose entry is a coordinate pair
UnsavedCoords(c, f) == {q \in UnsavedEntries(c, f) : Truthy(c[q])}

NoLoss == [rows |-> 0, entries |-> 0, coords |-> 0]

\* a process ends with table t and cache c in its memory, leaving the output file out
\* and the cache file cf
Lose(t, c, out, cf) ==
    lost' = [rows |-> Cardinality(UnsavedRows(t, todo, out)),
             entries |-> Cardinality(UnsavedEntries(c, cf)),
             coords |-> Cardinality(UnsavedCoords(c, cf))]

\* the Address Builder is not being applied on its own
NotBuilt == [variant |-> "none", s |-> <<>>]

\* no process has run yet on input dataset d; r is the record for the Address Builder
Fresh(d, r) ==
    /\ full = d
    /\ outCsv = NoFile
    /\ cacheFile = NoCacheFile
    /\ pc = "idle"
    /\ script = "none"
    /\ df = <<>>
    /\ cache = EmptyDict
    /\ failed_schools = <<>>
    /\ idx = 0
    /\ pending = NoQuery
    /\ geocoded_count = 0
    /\ failed_count = 0
    /\ shown = 0
    /\ lastExit = "none"
    /\ netCalls = EmptyCount
    /\ needDelay = FALSE
    /\ adjacentCalls = FALSE
    /\ visited = <<>>
    /\ todo = <<>>
    /\ lastCall = NoCall
    /\ lastStore = NoStore
    /\ everCached = {}
    /\ everSaved = {}
    /\ dumped = NoDump
    /\ lost = NoLoss
    /\ rec = r
    /\ addr = NotBuilt

Init == \E d \in Datasets : Fresh(d, EmptyRow)

InitBatch == Fresh(BatchDataset, EmptyRow)

InitLong == \E d \in LongDatasets : Fresh(d, EmptyRow)

\* the process ends: its memory is gone
EndProcess(how) ==
    /\ pc' = "idle"
    /\ lastExit' = how
    /\ df' = <<>>
    /\ cache' = EmptyDict
    /\ failed_schools' = <<>>
    /\ idx' = 0
    /\ pending' = NoQuery
    /\ geocoded_count' = 0
    /\ failed_count' = 0
    /\ shown' = 0
    /\ netCalls' = EmptyCount
    /\ needDelay' = FALSE

\* the history of the ended process's loop is dropped
ForgetHistory ==
    /\ visited' = <<>>
    /\ todo' = <<>>
    /\ lastCall' = NoCall
    /\ lastStore' = NoStore

\* json.dump(cache, f) into the cache file
WriteCache(c) ==
    /\ cacheFile' = SaveCache(c)
    /\ everSaved' = everSaved \cup DOMAIN c
    /\ dumped' = [valid |-> TRUE, d |-> c]

\* a process starts with table t, cache c and the rows `failed` to iterate (fallback)
BeginProcess(s, t, c, failed) ==
    /\ pc' = "loop"
    /\ script' = s
    /\ df' = t
    /\ cache' = c
    /\ failed_schools' = failed
    /\ idx' = 1
    /\ pending' = NoQuery
    /\ geocoded_count' = 0
    /\ failed_count' = 0
    /\ shown' = 0
    /\ netCalls' = EmptyCount
    /\ needDelay' = FALSE
    /\ visited' = <<>>
    /\ todo' = Missing(t)
    /\ lastCall' = NoCall
    /\ lastStore' = NoStore
    /\ everCached' = everCached \cup DOMAIN c
    /\ lost' = NoLoss
    /\ UNCHANGED <<given, files, lastExit, adjacentCalls>>

\* script s ends before its loop, by a return or by an exception
EndAtStartup(s, how) ==
    /\ EndProcess(how)
    /\ ForgetHistory
    /\ script' = s
    /\ lost' = NoLoss
    /\ UNCHANGED <<given, files, adjacentCalls, everCached>>

\* geocode_all_schools.main up to the loop; json.load and pd.read_csv raise on a file
\* they cannot read; df['latitude'] raises KeyError when the table has no such column;
\* main returns when nothing is left to geocode
StartAll ==
    /\ pc = "idle"
    /\ LET loaded == ReadCsv(full)
           t == IF outCsv.exists THEN MergeProgress(loaded, ReadCsv(outCsv.rows))
                                 ELSE AddCoordColumns(loaded)
       IN  IF Unreadable(cacheFile) \/ Unreadable(outCsv) \/ ~HasCoordCols(t)
           THEN EndAtStartup("all", "aborted")
           ELSE IF Len(Missing(t)) = 0
           THEN EndAtStartup("all", "returned")
           ELSE BeginProcess("all", t, LoadCache(cacheFile), <<>>)

\* accurate_geocoding.main up to the loop
StartAccurate ==
    /\ pc = "idle"
    /\ IF Unreadable(cacheFile)
       THEN EndAtStartup("accurate", "aborted")
       ELSE BeginProcess("accurate", AddCoordColumns(ReadCsv(full)), LoadCache(cacheFile),
                         <<>>)

\* geocode_batch.main up to the loop
StartBatch ==
    /\ pc = "idle"
    /\ IF Unreadable(cacheFile)
       THEN EndAtStartup("batch", "aborted")
       ELSE BeginProcess("batch", AddCoordColumns(ReadCsv(full)), LoadCache(cacheFile), <<>>)

\* process_failed_schools up to the loop (pd.read_csv needs the output file)
StartFallback ==
    /\ pc = "idle"
    /\ outCsv.exists
    /\ IF Unreadable(cacheFile) \/ Unreadable(outCsv)
       THEN EndAtStartup("fallback", "aborted")
       ELSE LET t == ReadCsv(outCsv.rows)
            IN  BeginProcess("fallback", t, LoadCache(cacheFile), Missing(t))

Min(a, b) == IF a <= b THEN a ELSE b

LoopLen ==
    IF script = "fallback" THEN Len(failed_schools)
    ELSE IF script = "batch" THEN Min(Len(df), BatchSize)
    ELSE Len(df)
CurLabel == IF script = "fallback" THEN failed_schools[idx] ELSE idx

\* geocode_with_nominatim or geocode_fallback, as script s calls it for a row
Geocode(s, row, c, resp, u1, u2) ==
    IF s = "fallback"
    THEN geocode_fallback(StripOrEmpty(row, "postcode"), StripOrEmpty(row, "city"),
                          c, resp, u1, u2)
    ELSE geocode_with_nominatim(full_address(s, row), c, resp)

\* the loop body from the value the geocode call gave (r) to the sleep
TakeResult(i, q, r, kind) ==
    LET e == Body(script, df, i, r.ret, geocoded_count, failed_count)
    IN  /\ lastCall' = [q |-> q, kind |-> kind, ret |-> r.ret, raised |-> r.raised,
                        cached |-> q \in DOMAIN r.cache,
                        entry |-> IF q \in DOMAIN r.cache THEN r.cache[q] ELSE None]
        /\ everCached' = everCached \cup DOMAIN r.cache
        /\ lastStore' = IF ~r.raised /\ Truthy(r.ret)
                        THEN [by |-> script, i |-> i, q |-> q,
                              lat |-> r.ret.lat, lon |-> r.ret.lon]
                        ELSE lastStore
        /\ IF r.raised \/ e.raised
           THEN /\ EndProcess("aborted")
                /\ Lose(IF r.raised THEN df ELSE e.df, r.cache, outCsv, cacheFile)
                /\ UNCHANGED files
           ELSE /\ df' = e.df
                /\ cache' = r.cache
                /\ geocoded_count' = e.gc
                /\ failed_count' = e.fc
                /\ shown' = shown + ClientLines(kind) + BodyLines(script, r.ret, failed_count)
                /\ outCsv' = IF e.saveOut THEN SaveOutput(e.df) ELSE outCsv
                /\ IF e.saveCache THEN WriteCache(r.cache)
                                  ELSE UNCHANGED <<cacheFile, everSaved, dumped>>
                /\ pc' = "sleep"
                /\ pending' = NoQuery
                /\ UNCHANGED <<failed_schools, idx, calls, lastExit, lost>>
        /\ UNCHANGED <<given, script, adjacentCalls, todo>>

\* a primary loop passes a row that has both coordinates
SkipResolved ==
    /\ pc = "loop"
    /\ script \in Primary
    /\ idx <= LoopLen
    /\ ~NeedsGeocoding(df[idx])
    /\ idx' = idx + 1
    /\ UNCHANGED <<given, files, pc, script, df, cache, failed_schools, pending,
                   geocoded_count, failed_count, shown, lastExit, calls, adjacentCalls, history,
                   everCached, lost>>

\* process_failed_schools: a row without postcode or city gets no lookup
NoPostcodeCity ==
    /\ pc = "loop"
    /\ script = "fallback"
    /\ idx <= LoopLen
    /\ ~FallbackAttempted(df[CurLabel])
    /\ visited' = Append(visited, CurLabel)
    /\ IF SliceRaises(df[CurLabel])
       THEN EndProcess("aborted") /\ Lose(df, cache, outCsv, cacheFile)
       ELSE /\ pc' = "sleep"
            /\ shown' = shown + 1
            /\ UNCHANGED <<df, cache, failed_schools, idx, pending, geocoded_count,
                           failed_count, calls, lastExit, lost>>
    /\ UNCHANGED <<given, files, script, adjacentCalls, todo, lastCall, lastStore,
                   everCached>>

\* the loop body looks a row's query up: a cache hit gives the result at once, a miss
\* sends the request
Lookup ==
    /\ pc = "loop"
    /\ idx <= LoopLen
    /\ IF script = "fallback" THEN FallbackAttempted(df[CurLabel])
                              ELSE NeedsGeocoding(df[CurLabel])
    /\ LET i == CurLabel
           q == Query(script, df[i])
       IN  /\ visited' = Append(visited, i)
           /\ IF InCache(q, cache)
              THEN TakeResult(i, q, Geocode(script, df[i], cache, NoResponse, 0, 0), "hit")
              ELSE /\ pc' = "call"
                   /\ pending' = q
                   /\ netCalls' = Put(netCalls, q, IF q \in DOMAIN netCalls
                                                   THEN netCalls[q] + 1 ELSE 1)
                   /\ adjacentCalls' = (adjacentCalls \/ needDelay)
                   /\ needDelay' = TRUE
                   /\ UNCHANGED <<given, files, script, df, cache, failed_schools, idx,
                                  geocoded_count, failed_count, shown, lastExit, todo, lastCall,
                                  lastStore, everCached, lost>>

\* the API answers (or requests.get raises) and the loop body goes on to the sleep
Respond ==
    /\ pc = "call"
    /\ \E resp \in Responses(pending) :
       \E u1 \in JitterDraws, u2 \in JitterDraws :
          /\ script # "fallback" => (u1 = 0 /\ u2 = 0)
          /\ TakeResult(CurLabel, pending,
                        Geocode(script, df[CurLabel], cache, resp, u1, u2), resp.kind)
    /\ UNCHANGED visited

\* faulty variant: the sleep stands in the `if coords:` branch only
SleepOnlyAfterSuccess ==
    /\ pc = "sleep"
    /\ pc' = "loop"
    /\ idx' = idx + 1
    /\ needDelay' = (needDelay /\ ~Truthy(lastCall.ret))
    /\ UNCHANGED <<given, files, script, df, cache, failed_schools, pending,
                   geocoded_count, failed_count, shown, lastExit, netCalls, adjacentCalls,
                   history, everCached, lost>>

\* time.sleep(...) at the end of the loop body
Sleep ==
    /\ pc = "sleep"
    /\ pc' = "loop"
    /\ idx' = idx + 1
    /\ needDelay' = FALSE
    /\ UNCHANGED <<given, files, script, df, cache, failed_schools, pending,
                   geocoded_count, failed_count, shown, lastExit, netCalls, adjacentCalls,
                   history, everCached, lost>>

\* after the loop: the final write of the cache file and of the output file
Finish ==
    /\ pc = "loop"
    /\ idx > LoopLen
    /\ WriteCache(cache)
    /\ outCsv' = SaveOutput(df)
    /\ EndProcess("finished")
    /\ Lose(df, cache, SaveOutput(df), SaveCache(cache))
    /\ ForgetHistory
    /\ UNCHANGED <<given, script, adjacentCalls, everCached>>

\* the process is terminated from outside
Kill ==
    /\ pc # "idle"
    /\ EndProcess("killed")
    /\ Lose(df, cache, outCsv, cacheFile)
    /\ ForgetHistory
    /\ UNCHANGED <<given, files, script, adjacentCalls, everCached>>

Next ==
    \/ StartAll
    \/ StartAccurate
    \/ StartBatch
    \/ StartFallback
    \/ SkipResolved
    \/ NoPostcodeCity
    \/ Lookup
    \/ Respond
    \/ Sleep
    \/ Finish
    \/ Kill

Spec == Init /\ [][Next]_vars

\* the same pipeline on the long datasets
SpecLong == InitLong /\ [][Next]_vars

\* the same pipeline on the dataset longer than a batch
SpecBatch == InitBatch /\ [][Next]_vars

\* the input dataset of two different records
InitMerge == Fresh(<<RowKerk, RowNoPostcode>>, EmptyRow)

\* t[Len(t)], ..., t[1]
Reverse(t) == [i \in 1..Len(t) |-> t[Len(t) + 1 - i]]

\* between two runs nl_highschools_full.csv is replaced by a version with its rows in
\* another order, or without its last row; the other files stay
ReplaceDataset ==
    /\ pc = "idle"
    /\ Len(full) > 1
    /\ full' \in {Reverse(full), SubSeq(full, 1, Len(full) - 1)}
    /\ UNCHANGED <<rec, addr, files, pc, script, memory, lastExit, calls, adjacentCalls,
                   history, everCached, lost>>

NextMerge == Next \/ ReplaceDataset

InitCrash == Fresh(<<RowKerk, RowNoPostcode>>, EmptyRow)

\* the output file when the process is terminated within to_csv: no bytes yet, or the
\* header and the first k rows
CutOutput(t, k) ==
    IF k = 0 THEN TornFile ELSE SaveOutput(SubSeq(t, 1, k - 1))

\* the process is terminated within one of its two final writes.  The primary scripts
\* write the cache file first and the output file second, geocode_with_fallback the
\* output file first: within the first write the second file is as it was, within the
\* second write the first file is written.
KillDuringWrite ==
    /\ pc = "loop"
    /\ idx > LoopLen
    /\ \E second \in BOOLEAN : \E k \in 0..Len(df) :
          LET cacheCut == (script = "fallback") = second
              cf == IF cacheCut THEN TornCacheFile
                    ELSE IF second THEN SaveCache(cache) ELSE cacheFile
              out == IF ~cacheCut THEN CutOutput(df, k)
                     ELSE IF second THEN SaveOutput(df) ELSE outCsv
          IN  /\ cacheFile' = cf
              /\ outCsv' = out
              /\ everSaved' = IF ~cacheCut /\ second THEN everSaved \cup DOMAIN cache
                                                     ELSE everSaved
              /\ dumped' = IF ~cacheCut /\ second THEN [valid |-> TRUE, d |-> cache]
                                                  ELSE NoDump
              /\ Lose(df, cache, out, cf)
    /\ EndProcess("killed")
    /\ ForgetHistory
    /\ UNCHANGED <<given, script, adjacentCalls, everCached>>

NextCrash == Next \/ KillDuringWrite

\* the pipeline with processes terminated within a write
SpecCrash == InitCrash /\ [][NextCrash]_vars

\* the pipeline with an input dataset that changes between runs
SpecMerge == InitMerge /\ [][NextMerge]_vars

----------------------------------------------------------------------------
(* The Address Builder on its own *)

Kerkstraat == <<"K", "e", "r", "k", "s", "t", "r", "a", "a", "t">>
Twelve == <<"1", "2">>
Postcode1234AB == <<"1", "2", "3", "4", " ", "A", "B">>
Utrecht == <<"U", "t", "r", "e", "c", "h", "t">>

\* what a cell of a text column can hold: nothing, the empty text, white space, the text
\* "nan", or a text proper
Blanks == {NaN, Val(<<>>), Val(<<" ">>), Val(StrNan)}

\* the records the builder is applied to
Records ==
    {Row(street, house_no, house_add, postcode, city, school_name, latitude, NaN) :
        street \in Blanks \cup {Val(Kerkstraat)},
        house_no \in Blanks \cup {Val(Twelve), Val(<<" ">> \o Twelve \o <<" ">>)},
        house_add \in Blanks \cup {Val(<<"a">>)},
        postcode \in {NaN, Val(<<" ">>), Val(Postcode1234AB)},
        city \in {NaN, Val(<<" ">>), Val(StrNan), Val(Utrecht)},
        school_name \in {NaN, Str1("A")},
        latitude \in {NaN, Val(52090)}}

InitBuilder == \E r \in Records : Fresh(<<>>, r)

\* create_full_address(row) of script v is applied to the record
Build(v) ==
    /\ addr' = [variant |-> v, s |-> Builder(v, rec)]
    /\ UNCHANGED <<full, rec, files, pc, script, memory, lastExit, calls, adjacentCalls,
                   history, everCached, lost>>

NextBuilder == \E v \in Variants : Build(v)

SpecBuilder == InitBuilder /\ [][NextBuilder]_vars

----------------------------------------------------------------------------
(* Properties *)

Abs(n) == IF n < 0 THEN -n ELSE n

\* two cache values are the same result: both no-result, or the same coordinate pair
SameResult(a, b) ==
    /\ Truthy(a) = Truthy(b)
    /\ Truthy(a) => (a.lat = b.lat /\ a.lon = b.lon)

\* a row's postcode or city is missing, or empty once stripped
MissingPostcodeOrCity(row) ==
    \/ isna(row.postcode)
    \/ isna(row.city)
    \/ Strip(row.postcode.v) = <<>>
    \/ Strip(row.city.v) = <<>>

\* C1: within one process, no query string is sent to the API more than once, whatever
\* the first answer was and however many rows share the string.
C1_AtMostOneCallPerQuery == \A q \in DOMAIN netCalls : netCalls[q] <= 1

\* C1 witness: a second row with the query of an earlier row, whose request failed in
\* this process, was served from the cache.
C1_Witness ==
    /\ pc = "sleep"
    /\ lastCall.kind = "hit"
    /\ ~Truthy(lastCall.ret)
    /\ lastCall.q \in DOMAIN netCalls
    /\ netCalls[lastCall.q] = 1

\* C2 as stated: a request is never sent for a query that had a cache entry before, be
\* it in the memory of an earlier process only.
C2_CachedNeverRequeried == pc = "call" => pending \notin everCached

\* C2 amended: a request is never sent for a query that has an entry in the process's
\* cache or ever had one in the cache file.
C2_SavedNeverRequeried == pc = "call" => pending \notin (everSaved \cup DOMAIN cache)

\* C2 witness: a later process serves a coordinate from the entries it loaded from the
\* cache file, without a request.
C2_Witness ==
    /\ pc = "sleep"
    /\ lastCall.kind = "hit"
    /\ lastCall.ret.t = "list"
    /\ lastCall.q \in everSaved
    /\ lastCall.q \notin DOMAIN netCalls

\* C3: a failed lookup leaves None under its query; a lookup of a key holding None
\* returns None from the cache; a request is outstanding only for a key absent from
\* the cache.
C3_NullDistinctFromAbsent ==
    /\ lastCall.kind \in Failures => (lastCall.cached /\ lastCall.entry = None)
    /\ (lastCall.kind = "hit" /\ lastCall.entry = None) => lastCall.ret = None
    /\ pc = "call" => pending \notin DOMAIN cache

\* C3 witness: a process that sent no request for the query answers no-result from a
\* None it loaded from the cache file.
C3_Witness ==
    /\ pc = "sleep"
    /\ lastCall.kind = "hit"
    /\ lastCall.ret = None
    /\ lastCall.q \notin DOMAIN netCalls
    /\ cache[lastCall.q] = None

\* C4: a lookup of a cached key gives the stored value, and loading the cache file
\* gives every key the last json.dump was given, each with the same result (the
\* same coordinate pair, or no-result), and no other key.
C4_CacheRoundTrip ==
    /\ \A q \in DOMAIN cache : geocode_with_nominatim(q, cache, NoResponse).ret = cache[q]
    /\ dumped.valid =>
         /\ cacheFile.exists
         /\ DOMAIN LoadCache(cacheFile) = DOMAIN dumped.d
         /\ \A q \in DOMAIN dumped.d : SameResult(LoadCache(cacheFile)[q], dumped.d[q])

\* C4 witness: a process runs on a cache loaded from a file to which a coordinate tuple
\* and a None were written.
C4_Witness ==
    /\ pc = "loop"
    /\ dumped.valid
    /\ \E q \in DOMAIN dumped.d : dumped.d[q].t = "tuple" /\ cache[q].t = "list"
    /\ \E q \in DOMAIN dumped.d : dumped.d[q] = None /\ cache[q] = None

\* C5: after every geocode call (a hit or any answer of the API) the cache maps the
\* query to exactly the value the call returned.
C5_ReturnedValueIsCached ==
    lastCall.kind # "none" =>
        (~lastCall.raised /\ lastCall.cached /\ lastCall.entry = lastCall.ret)

\* C5 witness: a fallback request answered with a jittered coordinate.
C5_Witness ==
    /\ script = "fallback"
    /\ lastCall.kind = "ok"
    /\ lastCall.ret.lat = ApiCoord(lastCall.q)[1] + JitterMax
    /\ lastCall.cached

\* C6: a request that fails in any way makes the geocode call return None; no
\* exception leaves the call.
C6_FailuresAreContained ==
    lastCall.kind \in Failures => (~lastCall.raised /\ lastCall.ret = None)

\* C6 witness: the loop goes on to its sleep after a malformed payload.
C6_Witness ==
    /\ pc = "sleep"
    /\ script = "all"
    /\ lastCall.kind = "malformed"
    /\ lastCall.ret = None

\* C7 as stated: a primary process that was not terminated from outside ends by its
\* final write, having handled every row that lacked coordinates, in table order.
C7_BatchNeverAborts ==
    /\ (pc = "idle" /\ script \in Primary) => lastExit \in {"finished", "returned", "killed"}
    /\ (pc = "loop" /\ script \in Primary /\ idx > LoopLen) => visited = todo

\* C8: no request is sent while the delay after the previous request of the process has
\* not been completed.
C8_DelayBetweenCalls == ~adjacentCalls

\* C8 witness: the fallback pass has sent a second request, after its first request
\* failed and the sleep was completed.
C8_Witness ==
    /\ pc = "call"
    /\ script = "fallback"
    /\ Cardinality(DOMAIN netCalls) = 2
    /\ \E q \in DOMAIN cache : q \in DOMAIN netCalls /\ cache[q] = None

\* C9: a step of the fallback pass on a row whose postcode or city is missing sends no
\* request, changes no cache entry and no file, and leaves the row as it was.
C9_NoFallbackWithoutPostcodeCity ==
    [][(/\ pc = "loop"
        /\ script = "fallback"
        /\ idx <= LoopLen
        /\ MissingPostcodeOrCity(df[CurLabel]))
       => (/\ pc' # "call"
           /\ outCsv' = outCsv
           /\ cacheFile' = cacheFile
           /\ pc' # "idle" => (cache' = cache /\ df' = df /\ netCalls' = netCalls))]_vars

\* C9 witness: the fallback pass has handled a row without postcode or city, which
\* still lacks coordinates, and is at its sleep.
C9_Witness ==
    /\ pc = "sleep"
    /\ script = "fallback"
    /\ visited # <<>>
    /\ MissingPostcodeOrCity(df[visited[Len(visited)]])
    /\ NeedsGeocoding(df[visited[Len(visited)]])
    /\ lastCall = NoCall

\* C10: a coordinate the fallback pass writes to a row lies within JitterMax, on each
\* axis, of the place the API gives for the row's postcode+city query.
C10_JitterBound ==
    lastStore.by = "fallback" =>
        /\ Abs(lastStore.lat - ApiCoord(lastStore.q)[1]) <= JitterMax
        /\ Abs(lastStore.lon - ApiCoord(lastStore.q)[2]) <= JitterMax

\* C10 witness: the fallback pass writes a jittered coordinate it found in a cache
\* loaded from the file.
C10_Witness ==
    /\ lastStore.by = "fallback"
    /\ lastCall.kind = "hit"
    /\ lastCall.ret.t = "list"
    /\ lastStore.lat = ApiCoord(lastStore.q)[1] + JitterMax
    /\ lastStore.lon = ApiCoord(lastStore.q)[2] - JitterMax

\* the fallback pass has just handled row i with a lookup that gave a coordinate
FallbackResolvedNow(i) ==
    /\ pc = "sleep"
    /\ script = "fallback"
    /\ visited # <<>>
    /\ i = visited[Len(visited)]
    /\ FallbackAttempted(df[i])
    /\ lastCall.q = Query("fallback", df[i])
    /\ Truthy(lastCall.ret)

\* the rows this fallback pass resolved before its last one, under query q
ResolvedEarlier(q) ==
    {visited[k] : k \in 1..(Len(visited) - 1)} \cap
    {j \in DOMAIN df : ~NeedsGeocoding(df[j]) /\ FallbackAttempted(df[j])
                        /\ Query("fallback", df[j]) = q}

\* C11 as stated: when the fallback pass resolves a record whose postcode and city it
\* has already resolved another record with, the coordinate comes from a request whose
\* answer got an offset drawn for this record, not from the earlier record's cache entry.
C11_JitterDrawnPerRecord ==
    \A i \in DOMAIN df :
        (FallbackResolvedNow(i) /\ ResolvedEarlier(lastCall.q) \ {i} # {})
            => lastCall.kind = "ok"

\* the labels of the rows that have both coordinates in the output file
ResolvedOnFile == {i \in DOMAIN outCsv.rows : ~NeedsGeocoding(ReadCsv(outCsv.rows)[i])}

\* C12: a geocode_all_schools process started on an output file gives every row that
\* is resolved in the file the file's coordinates and does not count it among the rows to
\* geocode; its loop looks up (in the cache or at the API) only rows counted at start;
\* and when the file resolves every row of the dataset the process ends at once, with
\* no request.
C12_ResumeKeepsResolved ==
    [][/\ (pc = "idle" /\ script' = "all" /\ outCsv.exists) =>
            /\ pc' = "loop" =>
                  \A i \in ResolvedOnFile :
                      /\ df'[i].latitude = outCsv.rows[i].latitude
                      /\ df'[i].longitude = outCsv.rows[i].longitude
                      /\ i \notin Range(todo')
            /\ DOMAIN full \subseteq ResolvedOnFile =>
                  (pc' = "idle" /\ lastExit' = "returned" /\ netCalls' = EmptyCount)
       /\ (script = "all" /\ pc = "loop" /\ pc' \in {"call", "sleep"}) =>
            /\ visited' = Append(visited, idx)
            /\ idx \in Range(todo)]_vars

\* C12 witness: after a process ended without its final write, a geocode_all_schools
\* process started on the output file of a periodic save has passed the SaveEvery rows
\* resolved in it without a lookup and stands at the first row left to geocode.
C12_Witness ==
    /\ script = "all"
    /\ pc = "loop"
    /\ lastExit \in {"killed", "aborted"}
    /\ outCsv.exists
    /\ Cardinality(ResolvedOnFile) = SaveEvery
    /\ idx = SaveEvery + 1
    /\ visited = <<>>
    /\ netCalls = EmptyCount
    /\ \A i \in ResolvedOnFile : df[i].latitude = outCsv.rows[i].latitude

C15_FallbackBoundedLoss ==
    /\ (script = "fallback" /\ pc # "idle") =>
           /\ Cardinality(UnsavedRows(df, todo, outCsv)) <= SaveEvery
           /\ Cardinality(UnsavedEntries(cache, cacheFile)) <= SaveEvery
    /\ (script = "fallback" /\ pc = "idle") =>
           (lost.rows <= SaveEvery /\ lost.entries <= SaveEvery)

\* s.split(", ")
RECURSIVE SplitFrom(_, _)
SplitFrom(s, cur) ==
    IF s = <<>> THEN <<cur>>
    ELSE IF Len(s) >= 2 /\ s[1] = "," /\ s[2] = " "
         THEN <<cur>> \o SplitFrom(SubSeq(s, 3, Len(s)), <<>>)
         ELSE SplitFrom(Tail(s), Append(cur, Head(s)))

Split(s) == SplitFrom(s, <<>>)

\* a house number or addition that is to be appended: present, and neither empty nor
\* the text "nan" once stripped
Appended(c) == notna(c) /\ Strip(c.v) # <<>> /\ Strip(c.v) # StrNan

\* "{street} {house_no}{house_add}" of a record with a street
StreetComponent(r) ==
    Strip(r.street.v)
    \o (IF Appended(r.house_no)
        THEN <<" ">> \o Strip(r.house_no.v)
             \o (IF Appended(r.house_add) THEN Strip(r.house_add.v) ELSE <<>>)
        ELSE <<>>)

\* the components of a record's address, in order, a missing field giving none
ExpectedParts(r) ==
    (IF notna(r.street) THEN <<StreetComponent(r)>> ELSE <<>>)
    \o (IF notna(r.postcode) THEN <<Strip(r.postcode.v)>> ELSE <<>>)
    \o (IF notna(r.city) THEN <<Strip(r.city.v)>> ELSE <<>>)
    \o <<Netherlands>>

\* the record with its five address fields only
AddressFields(r) == [r EXCEPT !.school_name = NaN, !.latitude = NaN, !.longitude = NaN]

\* {street: "Kerkstraat", house_no: "12", postcode: "1234 AB", city: "Utrecht"}
IsKerkstraat12(r) ==
    AddressFields(r) =
        Row(Val(Kerkstraat), Val(Twelve), NaN, Val(Postcode1234AB), Val(Utrecht), NaN, NaN, NaN)

\* the same record without house_no
IsKerkstraat(r) ==
    AddressFields(r) =
        Row(Val(Kerkstraat), NaN, NaN, Val(Postcode1234AB), Val(Utrecht), NaN, NaN, NaN)

\* "1234 AB, Utrecht, Netherlands"
Tail1234ABUtrecht == Postcode1234AB \o CommaSpace \o Utrecht \o CommaSpace \o Netherlands

\* C16: create_full_address of geocode_all_schools gives the street component
\* "{street} {house_no}{house_add}", the postcode, the city and "Netherlands", in this
\* order and joined by ", "; the string is the one the five address fields alone give;
\* and the two example records give the two example strings.
C16_AddressFormat ==
    addr.variant = "all" =>
        /\ addr.s = Join(CommaSpace, ExpectedParts(rec))
        /\ addr.s = create_full_address(AddressFields(rec))
        /\ IsKerkstraat12(rec) =>
              addr.s = Kerkstraat \o <<" ">> \o Twelve \o CommaSpace \o Tail1234ABUtrecht
        /\ IsKerkstraat(rec) => addr.s = Kerkstraat \o CommaSpace \o Tail1234ABUtrecht

\* C16 witness: the builder of geocode_all_schools has been applied to the example
\* record, of a school that has a name and a coordinate, and gave a string of four
\* components.
C16_Witness ==
    /\ addr.variant = "all"
    /\ IsKerkstraat12(rec)
    /\ notna(rec.school_name)
    /\ notna(rec.latitude)
    /\ Len(Split(addr.s)) = 4
    /\ Split(addr.s)[1] = Kerkstraat \o <<" ">> \o Twelve

\* C17 as stated: the string that create_full_address of geocode_all_schools or of
\* geocode_with_fallback builds has no empty component and no "nan" component between
\* its separators, and ends with "Netherlands".
C17_NoEmptyComponent ==
    addr.variant \in {"all", "fallback"} =>
        LET parts == Split(addr.s)
        IN  /\ \A k \in 1..Len(parts) : parts[k] # <<>> /\ parts[k] # StrNan
            /\ parts[Len(parts)] = Netherlands

\* C18 as stated: in every variant of create_full_address the street component of a
\* record with a street is the street, followed by the house number and its addition
\* only where these are present, non-empty once stripped and not "nan".
C18_HouseNumberFiltered ==
    (addr.variant \in Variants /\ notna(rec.street)) =>
        Split(addr.s)[1] = StreetComponent(rec)

\* a step in which a process ends normally: the loop is done and the final write made,
\* or geocode_all_schools returns because no row lacks a coordinate
EndsNormally ==
    /\ pc' = "idle"
    /\ \/ pc # "idle" /\ lastExit' = "finished"
       \/ pc = "idle" /\ script' = "all" /\ lastExit' = "returned"

\* C19 as stated: when a process ends normally both files exist, written by it: the
\* cache file holds the entries of the process's cache, and the output file holds both
\* coordinates of every row that has them in the process's table (for a process that
\* returns at once these are all the rows of the dataset).
C19_FlushAtRunEnd ==
    [][EndsNormally =>
          /\ cacheFile'.exists
          /\ outCsv'.exists
          /\ pc # "idle" =>
                /\ DOMAIN LoadCache(cacheFile') = DOMAIN cache
                /\ \A q \in DOMAIN cache : SameResult(LoadCache(cacheFile')[q], cache[q])
                /\ \A i \in DOMAIN df : ~NeedsGeocoding(df[i]) => OnFile(df, i, outCsv')
          /\ pc = "idle" =>
                \A i \in DOMAIN full :
                    i <= Len(outCsv'.rows) /\ ~NeedsGeocoding(outCsv'.rows[i])]_vars

\* a step in which the loop body of geocode_all_schools gets a coordinate for its row
\* and the count of successes becomes a multiple of SaveEvery
ReachesSaveCount ==
    /\ script = "all"
    /\ pc \in {"loop", "call"}
    /\ pc' = "sleep" \/ (pc' = "idle" /\ lastExit' = "aborted")
    /\ Truthy(lastCall'.ret)
    /\ (geocoded_count + 1) % SaveEvery = 0

\* C20 as stated: whenever the count of successes of a geocode_all_schools process
\* becomes a multiple of SaveEvery, the process goes on with both files written: the
\* output file holds the coordinates of every resolved row of the table and the cache
\* file an entry for every entry of the cache.
C20_PeriodicSaveContent ==
    [][ReachesSaveCount =>
          /\ pc' = "sleep"
          /\ geocoded_count' = geocoded_count + 1
          /\ outCsv'.exists
          /\ \A i \in DOMAIN df' : ~NeedsGeocoding(df'[i]) => OnFile(df', i, outCsv')
          /\ cacheFile'.exists
          /\ DOMAIN cacheFile'.data = DOMAIN cache'
          /\ \A q \in DOMAIN cache' : SameResult(LoadCache(cacheFile')[q], cache'[q])]_vars

\* a row has both coordinates
ResolvedRow(row) == notna(row.latitude) /\ notna(row.longitude)

SameCoords(a, b) == a.latitude = b.latitude /\ a.longitude = b.longitude

\* C21: a row that has both coordinates in a process's table keeps them in every later
\* step of the process, and the loop body handles only rows that lack one; a
\* geocode_all_schools or fallback process started on an output file takes the file's
\* coordinates for every row resolved there and does not put the row among those to
\* geocode; and a write of the output file by these two scripts leaves every row that was
\* resolved in the file with the coordinates it had.
C21_ResolvedIsAbsorbing ==
    [][/\ (pc # "idle" /\ pc' # "idle") =>
            /\ \A i \in DOMAIN df :
                  ResolvedRow(df[i]) => (i \in DOMAIN df' /\ SameCoords(df'[i], df[i]))
            /\ visited' # visited => ~ResolvedRow(df[visited'[Len(visited')]])
       /\ (pc = "idle" /\ pc' = "loop" /\ script' \in {"all", "fallback"} /\ outCsv.exists) =>
            \A i \in ResolvedOnFile :
                /\ SameCoords(df'[i], outCsv.rows[i])
                /\ i \notin Range(todo')
       /\ (script' \in {"all", "fallback"} /\ outCsv.exists /\ outCsv' # outCsv) =>
            \A i \in ResolvedOnFile :
                /\ i \in DOMAIN outCsv'.rows
                /\ SameCoords(outCsv'.rows[i], outCsv.rows[i])]_vars

\* C21 witness: a fallback pass, started on an output file in which a primary run had
\* resolved the first row, has resolved the second row and left the first as it was.
C21_Witness ==
    /\ script = "fallback"
    /\ pc = "sleep"
    /\ outCsv.exists
    /\ 1 \in ResolvedOnFile
    /\ todo = <<2>>
    /\ lastStore.by = "fallback"
    /\ lastStore.i = 2
    /\ SameCoords(df[1], outCsv.rows[1])
    /\ ResolvedRow(df[2])

\* C22 as stated: the fallback pass looks a row up only when an earlier primary process
\* looked the row's full address up (a necessary condition of that lookup having failed):
\* the address as some primary script builds it has had a cache entry.
C22_FallbackAfterPrimaryFailure ==
    [][(/\ script = "fallback"
        /\ pc = "loop"
        /\ idx <= LoopLen
        /\ visited' # visited
        /\ FallbackAttempted(df[CurLabel]))
       => \E s \in Primary : full_address(s, df[CurLabel]) \in everCached]_vars

\* the rows of table t that have both coordinates
WithCoords(t) == {i \in DOMAIN t : ResolvedRow(t[i])}

\* C23: in a geocode_all_schools process, after the start and after each loop iteration
\* geocoded_count + failed_count is the number of rows handled so far, and these are the
\* first of the rows that lacked a coordinate after load, in order; at the final write,
\* already_geocoded + geocoded_count + failed_count is the number of rows of the table,
\* and already_geocoded + geocoded_count is the number of rows with both coordinates in
\* the output file.
C23_CountersConsistent ==
    [][/\ (script' = "all" /\ pc' \in {"loop", "sleep"}) =>
            /\ geocoded_count' + failed_count' = Len(visited')
            /\ Len(visited') <= Len(todo')
            /\ visited' = SubSeq(todo', 1, Len(visited'))
       /\ (script = "all" /\ pc = "loop" /\ pc' = "idle" /\ lastExit' = "finished") =>
            LET already_geocoded == Len(df) - Len(todo)
            IN  /\ already_geocoded + geocoded_count + failed_count = Len(df)
                /\ Len(outCsv'.rows) = Len(full)
                /\ Cardinality(WithCoords(outCsv'.rows)) = already_geocoded + geocoded_count]_vars

\* C23 witness: a geocode_all_schools process, having handled one row with success and
\* one with failure, stands at the end of its loop, before the final write.
C23_Witness ==
    /\ script = "all"
    /\ pc = "loop"
    /\ idx > LoopLen
    /\ geocoded_count = 1
    /\ failed_count = 1
    /\ Len(visited) = 2

\* the rows the running process has handled without getting a coordinate
FailedRows == Len(visited) - geocoded_count

\* C24 as stated: a geocode_all_schools or accurate_geocoding process prints at most
\* ShownFailures failure lines (those of the geocode call's except clause and those of
\* the loop body), however many rows fail; and geocode_all_schools counts every failed
\* row in failed_count.
C24_FailureOutputBounded ==
    /\ (script \in {"all", "accurate"} /\ pc # "idle") => shown <= ShownFailures
    /\ (script = "all" /\ pc \in {"loop", "sleep"}) => failed_count = FailedRows

\* a step in which the loop body of a primary process changes the cache file
MidRunCacheWrite ==
    /\ script \in Primary
    /\ pc \in {"loop", "call"}
    /\ pc' = "sleep"
    /\ cacheFile' # cacheFile

\* C25 as stated: the loop body of a primary process writes the cache file only in an
\* iteration whose lookup gave a coordinate and made the count of successes a multiple
\* of the script's interval (so a run makes at most successes / interval such writes, and
\* a failed lookup makes none).
C25_WritesTiedToSuccesses ==
    [][MidRunCacheWrite =>
          /\ Truthy(lastCall'.ret)
          /\ geocoded_count' = geocoded_count + 1
          /\ geocoded_count' % CacheSaveEvery(script) = 0]_vars

\* C26 as stated: the query the fallback pass looks up for a row differs from the full
\* address that any primary script builds for any row of the table, so no cache entry of
\* a primary lookup stands under it.
C26_KeysDoNotCollide ==
    (script = "fallback" /\ pc = "loop" /\ idx <= LoopLen /\ FallbackAttempted(df[CurLabel]))
        => \A j \in DOMAIN df : \A s \in Primary :
               Query("fallback", df[CurLabel]) # full_address(s, df[j])

\* C27 as stated: a start of geocode_all_schools, whether or not the input dataset has
\* the coordinate columns and whatever the output file holds, gives a table with both
\* columns and goes on to count the unresolved rows: the process enters its loop, or
\* returns because nothing is left to geocode.
C27_StartupNeverAborts ==
    [][(pc = "idle" /\ script' = "all") =>
          \/ pc' = "loop" /\ HasCoordCols(df')
          \/ pc' = "idle" /\ lastExit' = "returned"]_vars

\* two rows are the same record: they agree in every field but the coordinates
SameRecord(a, b) == \A f \in StrCols : a[f] = b[f]

\* C28 as stated: the table a geocode_all_schools process starts its loop with, after
\* the merge of the output file, has the rows of the input dataset and no other; and a
\* row that has coordinates there has those of the input dataset, or those of a resolved
\* row of the output file that is the same record.
C28_MergeByIdentifier ==
    [][(pc = "idle" /\ script' = "all" /\ pc' = "loop" /\ outCsv.exists) =>
          /\ Len(df') = Len(full)
          /\ \A i \in DOMAIN df' :
                ResolvedRow(df'[i]) =>
                    \/ i <= Len(full) /\ SameCoords(df'[i], AddCoordColumns(full)[i])
                    \/ \E j \in ResolvedOnFile :
                          /\ SameRecord(df'[i], outCsv.rows[j])
                          /\ SameCoords(df'[i], outCsv.rows[j])]_vars

\* C29 as stated: when a process is terminated, each of the two files holds what it held
\* before the write the process was in, or the whole of what that write was writing; and
\* no later start of a script ends with an exception.
C29_FilesCrashSafe ==
    [][/\ (pc # "idle" /\ pc' = "idle" /\ lastExit' = "killed") =>
            /\ cacheFile' \in {cacheFile, SaveCache(cache)}
            /\ outCsv' \in {outCsv, SaveOutput(df)}
       /\ (pc = "idle" /\ pc' = "idle") => lastExit' # "aborted"]_vars

\* C30 as stated: when a process of any of the four scripts completes normally, every row
\* that had both coordinates in the output file when it completes its final write has
\* both coordinates in the file it writes.
C30_OutputGrowsMonotonically ==
    [][(pc = "loop" /\ pc' = "idle" /\ lastExit' = "finished" /\ outCsv.exists) =>
          \A i \in ResolvedOnFile :
              /\ i \in DOMAIN outCsv'.rows
              /\ ResolvedRow(outCsv'.rows[i])]_vars

====
